---- MODULE Spec2Model ----
(***************************************************************************)
(* Dialogue core of the well-analysis chatbot (geohackathon/app.py):       *)
(* generate_response with its formatters, and the Streamlit session        *)
(* handlers that drive the conversation log and the current report.        *)
(*                                                                         *)
(* Text is a sequence of one-character strings, so that lower() and the    *)
(* substring test `word in lower_input` are computed, not assumed.         *)
(* Numbers carried by a report range over integers (the comparisons and    *)
(* the subtraction of the code act on them as on floats); percentages the  *)
(* code computes by division are exact rationals.                          *)
(* A message text built from templates is a record: a `kind` naming the    *)
(* template and the values interpolated into it.                           *)
(***************************************************************************)
EXTENDS Integers, Sequences, FiniteSets, TLC

\* ------------------------------------------------------------------ bounds
\* Fragments concatenated into one utterance.
MaxFrags == 2
\* Entries of extracted_parameters.
MaxParams == 2
\* Length of the conversation log explored.
MaxMessages == 5

\* ------------------------------------------------------------------- text
LowerOf ==
    [A |-> "a", B |-> "b", C |-> "c", D |-> "d", E |-> "e", F |-> "f",
     G |-> "g", H |-> "h", I |-> "i", J |-> "j", K |-> "k", L |-> "l",
     M |-> "m", N |-> "n", O |-> "o", P |-> "p", Q |-> "q", R |-> "r",
     S |-> "s", T |-> "t", U |-> "u", V |-> "v", W |-> "w", X |-> "x",
     Y |-> "y", Z |-> "z"]

\* str.lower() on one character: upper-case letters map to lower case,
\* everything else is unchanged.
LowerChar(c) == IF c \in DOMAIN LowerOf THEN LowerOf[c] ELSE c

\* user_input.lower()
Lower(s) == [i \in 1..Len(s) |-> LowerChar(s[i])]

\* `word in text` for Python strings: word occurs as a contiguous substring.
Contains(text, word) ==
    \E i \in 1..(Len(text) - Len(word) + 1) :
        SubSeq(text, i, i + Len(word) - 1) = word

\* any(word in lower_input for word in words)
AnyWordIn(words, lower_input) ==
    \E k \in 1..Len(words) : Contains(lower_input, words[k])

kw_upload == <<"u","p","l","o","a","d">>
kw_how == <<"h","o","w">>
kw_start == <<"s","t","a","r","t">>
kw_extract == <<"e","x","t","r","a","c","t">>
kw_parameter == <<"p","a","r","a","m","e","t","e","r">>
kw_nodal == <<"n","o","d","a","l">>
kw_analysis == <<"a","n","a","l","y","s","i","s">>
kw_calculate == <<"c","a","l","c","u","l","a","t","e">>
kw_data == <<"d","a","t","a">>
kw_pressure == <<"p","r","e","s","s","u","r","e">>
kw_flow == <<"f","l","o","w">>
kw_summary == <<"s","u","m","m","a","r","y">>
kw_overview == <<"o","v","e","r","v","i","e","w">>
kw_increase == <<"i","n","c","r","e","a","s","e">>
kw_optimize == <<"o","p","t","i","m","i","z","e">>
kw_improve == <<"i","m","p","r","o","v","e">>
kw_limit == <<"l","i","m","i","t">>
kw_bottleneck == <<"b","o","t","t","l","e","n","e","c","k">>
kw_problem == <<"p","r","o","b","l","e","m">>

\* Keys of extracted_parameters.
kw_well_name == <<"w","e","l","l","_","n","a","m","e">>
kw_duration == <<"d","u","r","a","t","i","o","n">>

\* The keyword lists of generate_response, in source order.
HelpWords == <<kw_upload, kw_how, kw_start>>
ExplainExtractionWords == <<kw_extract, kw_parameter>>
ExplainNodalWords == <<kw_nodal, kw_analysis, kw_calculate>>
ParameterWords == <<kw_parameter, kw_extract, kw_data>>
NodalWords == <<kw_nodal, kw_pressure, kw_flow>>
SummaryWords == <<kw_summary, kw_overview>>
OptimizationWords == <<kw_increase, kw_optimize, kw_improve>>
LimitationWords == <<kw_limit, kw_bottleneck, kw_problem>>

\* ----------------------------------------------------------- Python values
\* The result of evaluating a Python expression or call: a value, or an
\* exception that propagates to the caller.
Return(text) == [outcome |-> "return", text |-> text, exc |-> ""]
Raise(exc) == [outcome |-> "raise", text |-> [kind |-> "none"], exc |-> exc]

\* st.session_state.current_report = None
None == [py |-> "None"]

\* bool(report): None is falsy, a report dict with keys is truthy.
Truthy(report) == report.py # "None"

\* A scalar of extracted_parameters: a string, a number or None.
StrValue(s) == [t |-> "str", s |-> s, n |-> 0]
NumValue(n) == [t |-> "num", s |-> "", n |-> n]
NoneValue == [t |-> "none", s |-> "", n |-> 0]

\* `if value:` on a scalar: "", 0 and None are falsy.
TruthyValue(v) ==
    CASE v.t = "str" -> v.s # ""
      [] v.t = "num" -> v.n # 0
      [] OTHER -> FALSE

\* A quotient computed by the code, kept exact: num / den with den # 0.
Rat(n, d) == [num |-> n, den |-> d]

\* r > k for a rational r and an integer k.
RatGT(r, k) == IF r.den > 0 THEN r.num > k * r.den ELSE r.num < k * r.den

\* a / b in Python: ZeroDivisionError when b is 0.
TrueDiv(a, b) == IF b = 0 THEN Raise("ZeroDivisionError") ELSE Return(Rat(a, b))

\* d[key] on a dict whose present keys are d.keys: KeyError when absent.
HasKey(d, key) == key \in d.keys

UpperOf ==
    [a |-> "A", b |-> "B", c |-> "C", d |-> "D", e |-> "E", f |-> "F",
     g |-> "G", h |-> "H", i |-> "I", j |-> "J", k |-> "K", l |-> "L",
     m |-> "M", n |-> "N", o |-> "O", p |-> "P", q |-> "Q", r |-> "R",
     s |-> "S", t |-> "T", u |-> "U", v |-> "V", w |-> "W", x |-> "X",
     y |-> "Y", z |-> "Z"]

IsLetter(c) == c \in DOMAIN UpperOf \/ c \in DOMAIN LowerOf

UpperChar(c) == IF c \in DOMAIN UpperOf THEN UpperOf[c] ELSE c

\* key.replace('_', ' ')
ReplaceUnderscore(s) == [i \in 1..Len(s) |-> IF s[i] = "_" THEN " " ELSE s[i]]

\* str.title(): a letter that follows a non-letter (or starts the text) is
\* upper-cased, every other letter is lower-cased.
Title(s) ==
    [i \in 1..Len(s) |->
        IF i = 1 \/ ~IsLetter(s[i - 1]) THEN UpperChar(s[i]) ELSE LowerChar(s[i])]

\* ------------------------------------------------------------- formatters
format_nodal_details(results) ==
    Return([kind |-> "NodalDetails",
            op |-> results.operating_point,
            pa |-> results.pressure_analysis,
            fc |-> results.flow_characteristics,
            prod |-> results.productivity])

\* A variant of generate_optimization_advice whose first band includes 50.
generate_optimization_advice_Inclusive(results) ==
    LET prod == results.productivity
        utilization == prod.current_utilization_pct
        gain == prod.max_flow_rate_m3_h - results.operating_point.flow_rate_m3_h
    IN  IF utilization <= 50
        THEN Return([kind |-> "OptimizationAdvice", utilization |-> utilization,
                     band |-> "high potential", gain_line |-> TRUE, gain |-> gain])
        ELSE IF utilization < 75
        THEN Return([kind |-> "OptimizationAdvice", utilization |-> utilization,
                     band |-> "moderate potential", gain_line |-> FALSE, gain |-> 0])
        ELSE Return([kind |-> "OptimizationAdvice", utilization |-> utilization,
                     band |-> "operating efficiently", gain_line |-> FALSE, gain |-> 0])

generate_optimization_advice(results) ==
    LET prod == results.productivity
        utilization == prod.current_utilization_pct
        gain == prod.max_flow_rate_m3_h - results.operating_point.flow_rate_m3_h
    IN  IF utilization < 50
        THEN Return([kind |-> "OptimizationAdvice", utilization |-> utilization,
                     band |-> "high potential", gain_line |-> TRUE, gain |-> gain])
        ELSE IF utilization < 75
        THEN Return([kind |-> "OptimizationAdvice", utilization |-> utilization,
                     band |-> "moderate potential", gain_line |-> FALSE, gain |-> 0])
        ELSE Return([kind |-> "OptimizationAdvice", utilization |-> utilization,
                     band |-> "operating efficiently", gain_line |-> FALSE, gain |-> 0])

\* Lines 141-157: the text built once both percentages are known.
LimitationsText(pa, fc, hydrostatic_pct, friction_pct) ==
    Return([kind |-> "LimitationAnalysis",
            hydrostatic_pct |-> hydrostatic_pct,
            friction_pct |-> friction_pct,
            hydrostatic_bar |-> pa.hydrostatic_pressure_drop_bar,
            friction_bar |-> pa.friction_pressure_drop_bar,
            high_friction |-> RatGT(friction_pct, 10),
            flow_regime |-> Lower(fc.flow_regime)])

\* A variant of identify_limitations without the total_drop == 0 guard.
identify_limitations_NoGuard(results) ==
    LET pa == results.pressure_analysis
        fc == results.flow_characteristics
        total_drop == pa.total_pressure_drop_bar
        hq == TrueDiv(pa.hydrostatic_pressure_drop_bar, total_drop)
        fq == TrueDiv(pa.friction_pressure_drop_bar, total_drop)
    IN  IF hq.outcome = "raise" THEN hq
        ELSE IF fq.outcome = "raise" THEN fq
        ELSE LimitationsText(pa, fc,
                             Rat(hq.text.num * 100, hq.text.den),
                             Rat(fq.text.num * 100, fq.text.den))

identify_limitations(results) ==
    LET pa == results.pressure_analysis
        fc == results.flow_characteristics
        total_drop == pa.total_pressure_drop_bar
        hq == TrueDiv(pa.hydrostatic_pressure_drop_bar, total_drop)
        fq == TrueDiv(pa.friction_pressure_drop_bar, total_drop)
    IN  IF total_drop = 0
        THEN LimitationsText(pa, fc, Rat(0, 1), Rat(0, 1))
        ELSE IF hq.outcome = "raise" THEN hq
        ELSE IF fq.outcome = "raise" THEN fq
        ELSE LimitationsText(pa, fc,
                             Rat(hq.text.num * 100, hq.text.den),
                             Rat(fq.text.num * 100, fq.text.den))

\* A variant of ParameterBullets that emits a bullet for every entry.
ParameterBullets_NoFilter(params) ==
    [i \in 1..Len(params) |->
        [label |-> Title(ReplaceUnderscore(params[i].key)), value |-> params[i].value]]

\* Lines 207-212: one bullet per entry whose value is truthy, in the
\* mapping's insertion order.
ParameterBullets(params) ==
    LET kept == SelectSeq(params, LAMBDA p : TruthyValue(p.value))
    IN  [i \in 1..Len(kept) |->
            [label |-> Title(ReplaceUnderscore(kept[i].key)), value |-> kept[i].value]]

\* The branch generate_response took, attached to what the branch produced.
Branch(category, result) ==
    [category |-> category, outcome |-> result.outcome,
     text |-> result.text, exc |-> result.exc]

\* Lines 215-220.
ShowNodalDetails(report) ==
    LET nodal == report.nodal_analysis_results
    IN  IF nodal.status = "success"
        THEN IF HasKey(nodal, "results")
             THEN format_nodal_details(nodal.results)
             ELSE Raise("KeyError")
        ELSE IF HasKey(nodal, "message")
             THEN Return([kind |-> "NodalIncomplete", message |-> nodal.message])
             ELSE Raise("KeyError")

\* A variant of OptimizationAdvice that reads the results whatever the status.
OptimizationAdvice_NoStatusCheck(report) ==
    LET nodal == report.nodal_analysis_results
    IN  IF HasKey(nodal, "results")
        THEN generate_optimization_advice(nodal.results)
        ELSE Raise("KeyError")

\* Lines 226-229.
OptimizationAdvice(report) ==
    LET nodal == report.nodal_analysis_results
    IN  IF nodal.status = "success"
        THEN IF HasKey(nodal, "results")
             THEN generate_optimization_advice(nodal.results)
             ELSE Raise("KeyError")
        ELSE Return([kind |-> "NeedNodalForOptimization"])

\* Lines 232-235.
LimitationAnalysis(report) ==
    LET nodal == report.nodal_analysis_results
    IN  IF nodal.status = "success"
        THEN IF HasKey(nodal, "results")
             THEN identify_limitations(nodal.results)
             ELSE Raise("KeyError")
        ELSE Return([kind |-> "NeedNodalForLimitations"])

\* A variant of NoReportResponse that tests the extraction words first.
NoReportResponse_ExtractionFirst(user_input, lower_input) ==
    IF AnyWordIn(ExplainExtractionWords, lower_input)
    THEN Branch("ExplainExtraction", Return([kind |-> "ExplainExtraction"]))
    ELSE IF AnyWordIn(HelpWords, lower_input)
    THEN Branch("HelpGettingStarted", Return([kind |-> "HelpGettingStarted"]))
    ELSE IF AnyWordIn(ExplainNodalWords, lower_input)
    THEN Branch("ExplainNodalAnalysis", Return([kind |-> "ExplainNodalAnalysis"]))
    ELSE Branch("NeedsUpload", Return([kind |-> "NeedsUpload", echo |-> user_input]))

\* Lines 167-203: the branch taken when `not report`.
NoReportResponse(user_input, lower_input) ==
    IF AnyWordIn(HelpWords, lower_input)
    THEN Branch("HelpGettingStarted", Return([kind |-> "HelpGettingStarted"]))
    ELSE IF AnyWordIn(ExplainExtractionWords, lower_input)
    THEN Branch("ExplainExtraction", Return([kind |-> "ExplainExtraction"]))
    ELSE IF AnyWordIn(ExplainNodalWords, lower_input)
    THEN Branch("ExplainNodalAnalysis", Return([kind |-> "ExplainNodalAnalysis"]))
    ELSE Branch("NeedsUpload", Return([kind |-> "NeedsUpload", echo |-> user_input]))

\* A variant of LoadedResponse that tests the summary words before the
\* nodal words.
LoadedResponse_SummaryFirst(user_input, lower_input, report) ==
    IF AnyWordIn(ParameterWords, lower_input)
    THEN Branch("ShowParameters",
                Return([kind |-> "ShowParameters",
                        bullets |-> ParameterBullets(report.extracted_parameters)]))
    ELSE IF AnyWordIn(SummaryWords, lower_input)
    THEN Branch("ShowSummary",
                Return([kind |-> "ShowSummary", summary |-> report.summary]))
    ELSE IF AnyWordIn(NodalWords, lower_input)
    THEN Branch("ShowNodalDetails", ShowNodalDetails(report))
    ELSE IF AnyWordIn(OptimizationWords, lower_input)
    THEN Branch("OptimizationAdvice", OptimizationAdvice(report))
    ELSE IF AnyWordIn(LimitationWords, lower_input)
    THEN Branch("LimitationAnalysis", LimitationAnalysis(report))
    ELSE Branch("FallbackMenu", Return([kind |-> "FallbackMenu", echo |-> user_input]))

\* Lines 205-247: the branch taken when a report is loaded.
LoadedResponse(user_input, lower_input, report) ==
    IF AnyWordIn(ParameterWords, lower_input)
    THEN Branch("ShowParameters",
                Return([kind |-> "ShowParameters",
                        bullets |-> ParameterBullets(report.extracted_parameters)]))
    ELSE IF AnyWordIn(NodalWords, lower_input)
    THEN Branch("ShowNodalDetails", ShowNodalDetails(report))
    ELSE IF AnyWordIn(SummaryWords, lower_input)
    THEN Branch("ShowSummary",
                Return([kind |-> "ShowSummary", summary |-> report.summary]))
    ELSE IF AnyWordIn(OptimizationWords, lower_input)
    THEN Branch("OptimizationAdvice", OptimizationAdvice(report))
    ELSE IF AnyWordIn(LimitationWords, lower_input)
    THEN Branch("LimitationAnalysis", LimitationAnalysis(report))
    ELSE Branch("FallbackMenu", Return([kind |-> "FallbackMenu", echo |-> user_input]))

generate_response(user_input, report) ==
    LET lower_input == Lower(user_input)
    IN  IF ~Truthy(report)
        THEN NoReportResponse(user_input, lower_input)
        ELSE LoadedResponse(user_input, lower_input, report)

\* Lines 25-55.
format_analysis_results(report) ==
    LET params == report.extracted_parameters
        nodal == report.nodal_analysis_results
        wells == SelectSeq(params, LAMBDA p : p.key = kw_well_name /\ TruthyValue(p.value))
        well == IF Len(wells) > 0 THEN wells[1].value ELSE NoneValue
    IN  IF nodal.status = "success"
        THEN IF HasKey(nodal, "results")
             THEN Return([kind |-> "AnalysisComplete", well |-> well,
                          nodal_block |-> TRUE,
                          op |-> nodal.results.operating_point,
                          prod |-> nodal.results.productivity,
                          summary |-> report.summary])
             ELSE Raise("KeyError")
        ELSE Return([kind |-> "AnalysisComplete", well |-> well,
                     nodal_block |-> FALSE, summary |-> report.summary])

\* ------------------------------------------------------------ report data
\* Well-formed NodalResults: the four sub-records of a successful analysis.
Results(flow, maxflow, util, hydro, friction, total, regime) ==
    [operating_point |->
        [flow_rate_m3_h |-> flow, wellhead_pressure_bar |-> 12,
         bottomhole_pressure_bar |-> 180, reservoir_pressure_bar |-> 210],
     pressure_analysis |->
        [hydrostatic_pressure_drop_bar |-> hydro,
         friction_pressure_drop_bar |-> friction,
         total_pressure_drop_bar |-> total],
     flow_characteristics |->
        [reynolds_number |-> 52000, flow_regime |-> regime,
         friction_factor |-> 2, velocity_m_s |-> 3],
     productivity |->
        [productivity_index_m3h_bar |-> 4, max_flow_rate_m3_h |-> maxflow,
         current_utilization_pct |-> util]]

Turbulent == <<"T","u","r","b","u","l","e","n","t">>
LAMINAR == <<"L","A","M","I","N","A","R">>

NominalResults == Results(35, 50, 70, 90, 10, 100, Turbulent)

\* {"status": "success", "results": {...}}
NodalSuccess(results) ==
    [status |-> "success", keys |-> {"status", "results"},
     results |-> results, message |-> ""]

\* {"status": <not success>, "message": "..."}: no "results" key.
NodalFailure(message) ==
    [status |-> "error", keys |-> {"status", "message"},
     results |-> NominalResults, message |-> message]

\* A status of success without the "results" key: the shape the handler
\* stores unvalidated and the formatters index without a check.
NodalSuccessNoResults ==
    [status |-> "success", keys |-> {"status"},
     results |-> NominalResults, message |-> ""]

Report(params, nodal, summary) ==
    [py |-> "dict", extracted_parameters |-> params,
     nodal_analysis_results |-> nodal, summary |-> summary]

ParamKeys == {kw_well_name, kw_duration, <<"t","u","b","i","n","g","_","S","I","Z","E">>}
ParamValues ==
    {StrValue("A-12"), StrValue("0"), StrValue(""), NumValue(0), NumValue(7), NoneValue}

\* A dict's items(): distinct keys, in insertion order.
ParamDicts ==
    UNION {{p \in [1..n -> [key : ParamKeys, value : ParamValues]] :
                \A i, j \in 1..n : i # j => p[i].key # p[j].key} : n \in 0..MaxParams}

NominalParams ==
    <<[key |-> kw_well_name, value |-> StrValue("A-12")],
      [key |-> kw_duration, value |-> StrValue("")]>>

UtilizationValues == {0, 40, 49, 50, 51, 74, 75, 76, 100, 130}
FlowValues == {20, 35, 60}
HydrostaticValues == {0, 90, 100}
FrictionValues == {0, 10, 11, 20}
TotalDropValues == {0, 100, 110, -100}

AdviceResults ==
    {Results(f, 50, u, 90, 10, 100, Turbulent) : f \in FlowValues, u \in UtilizationValues}
LimitationResults ==
    {Results(35, 50, 70, h, f, t, r) :
        h \in HydrostaticValues, f \in FrictionValues, t \in TotalDropValues,
        r \in {Turbulent, LAMINAR}}

GoodReport == Report(NominalParams, NodalSuccess(NominalResults), "Well A-12 summary")
FailedNodalReport ==
    Report(NominalParams, NodalFailure("missing reservoir pressure"), "Well B-7 summary")
NoResultsReport == Report(NominalParams, NodalSuccessNoResults, "")

FormatReports ==
    {Report(p, NodalSuccess(NominalResults), "Well A-12 summary") : p \in ParamDicts}
    \cup {Report(NominalParams, NodalSuccess(r), "") : r \in AdviceResults \cup LimitationResults}
    \cup {Report(NominalParams, NodalFailure(m), "Well B-7 summary") :
            m \in {"missing reservoir pressure", ""}}
    \cup {GoodReport, FailedNodalReport, NoResultsReport}

\* -------------------------------------------------------------- utterances
Fragments ==
    {kw_upload, kw_how, kw_start, kw_extract, kw_parameter, kw_nodal, kw_analysis,
     kw_calculate, kw_data, kw_pressure, kw_flow, kw_summary, kw_overview,
     kw_increase, kw_optimize, kw_improve, kw_limit, kw_bottleneck, kw_problem,
     <<"U","P","L","O","A","D">>, <<"N","o","d","a","l">>,
     <<"S","U","M","M","A","R","Y">>, <<"D","a","T","a">>, <<"L","i","m","i","t">>,
     <<" ">>, <<"x">>, <<"s">>, <<"u","p","l","o","a">>, <<"n","o","d">>, <<"d","a","t">>}

RECURSIVE Join(_)
Join(frags) == IF frags = <<>> THEN <<>> ELSE Head(frags) \o Join(Tail(frags))

Utterances == UNION {{Join(fs) : fs \in [1..n -> Fragments]} : n \in 0..MaxFrags}

\* One utterance per branch of generate_response, for the formatter cases.
BranchUtterances ==
    {kw_data, kw_nodal, kw_summary, kw_optimize, kw_limit, <<"x">>, kw_upload}

\* ------------------------------------------------------------------ state
VARIABLES
    messages,            \* st.session_state.messages
    current_report,      \* st.session_state.current_report
    uploaded_file_name,  \* st.session_state.uploaded_file_name
    uploaded_file,       \* the file_uploader widget's value
    last_run,            \* the handler that ran last and how it ended
    arg_fn,              \* the function a direct call applies
    arg_input,           \* its user_input argument
    arg_report,          \* its report argument
    ret                  \* what the call produced

vars ==
    <<messages, current_report, uploaded_file_name, uploaded_file, last_run,
      arg_fn, arg_input, arg_report, ret>>

session_vars == <<messages, current_report, uploaded_file_name, uploaded_file, last_run>>
call_vars == <<arg_fn, arg_input, arg_report, ret>>

NoFile == "<no file>"
Files == {"a.pdf", "b.pdf"}

Message(role, content) == [role |-> role, content |-> content]

\* Lines 374-389: the seeded greeting.
Greeting == Message("assistant", [kind |-> "Greeting"])

NotCalled == [category |-> "", outcome |-> "not called", text |-> [kind |-> "none"], exc |-> ""]

\* Lines 374-395.
SessionInit ==
    /\ messages = <<Greeting>>
    /\ current_report = None
    /\ uploaded_file_name = NoFile
    /\ uploaded_file = NoFile
    /\ last_run = [handler |-> "start", outcome |-> "done", at |-> ""]

NoCall ==
    /\ arg_fn = "none"
    /\ arg_input = <<>>
    /\ arg_report = None
    /\ ret = NotCalled

Init == SessionInit /\ NoCall

\* ---------------------------------------------------------------- handlers
\* Lines 411-419: the user picks a file in the uploader.
UploadFile(name) ==
    /\ uploaded_file # name
    /\ uploaded_file' = name
    /\ uploaded_file_name' = name
    /\ last_run' = [handler |-> "upload", outcome |-> "done", at |-> ""]
    /\ UNCHANGED <<messages, current_report>>
    /\ UNCHANGED call_vars

\* The user clears the uploader: line 417 is false, nothing is stored.
RemoveFile ==
    /\ uploaded_file # NoFile
    /\ uploaded_file' = NoFile
    /\ last_run' = [handler |-> "remove", outcome |-> "done", at |-> ""]
    /\ UNCHANGED <<messages, current_report, uploaded_file_name>>
    /\ UNCHANGED call_vars

\* WellAnalysisAgent(tmp_path, word_limit).run(): a report, or an exception.
\* The handler stores what run() returns without validating it.
WellAnalysisAgent_run ==
    {Raise("AnalysisError")}
    \cup {[outcome |-> "return", report |-> r, exc |-> ""] :
            r \in {GoodReport, FailedNodalReport, NoResultsReport}}

\* Lines 430-441: the steps that run before the report is stored. Writing
\* the temporary file, the engine and os.unlink may each raise.
StepsBeforeStore == {"tempfile", "engine", "unlink"}

\* Lines 426-463. st.rerun() ends the script run after the second append.
AnalyzeDocument ==
    /\ uploaded_file # NoFile
    /\ Len(messages) + 2 <= MaxMessages
    /\ UNCHANGED <<uploaded_file_name, uploaded_file>>
    /\ UNCHANGED call_vars
    /\ \E run \in WellAnalysisAgent_run, io_fails_at \in {"tempfile", "unlink", "never"} :
         LET fails_at ==
                IF io_fails_at = "tempfile" THEN "tempfile"
                ELSE IF run.outcome = "raise" THEN "engine"
                ELSE IF io_fails_at = "unlink" THEN "unlink"
                ELSE "never"
         IN  IF fails_at \in StepsBeforeStore
             THEN /\ UNCHANGED <<messages, current_report>>
                  /\ last_run' = [handler |-> "analyze", outcome |-> "raised", at |-> fails_at]
             ELSE LET report == run.report
                      user_msg == Message("user", [kind |-> "Analyze", file |-> uploaded_file])
                      results_msg == format_analysis_results(report)
                  IN  /\ current_report' = report
                      /\ IF results_msg.outcome = "raise"
                         THEN /\ messages' = Append(messages, user_msg)
                              /\ last_run' = [handler |-> "analyze", outcome |-> "raised",
                                              at |-> "format_analysis_results"]
                         ELSE /\ messages' = messages \o
                                    <<user_msg, Message("assistant", results_msg.text)>>
                              /\ last_run' = [handler |-> "analyze", outcome |-> "done",
                                              at |-> ""]

\* A variant of the chat handler that rebuilds the log from the greeting.
ChatInput_Resets(user_input) ==
    /\ user_input # <<>>
    /\ Len(messages) + 2 <= MaxMessages
    /\ LET response == generate_response(user_input, current_report)
           user_msg == Message("user", [kind |-> "UserInput", input |-> user_input])
       IN  /\ messages' = <<Greeting, user_msg, Message("assistant", response.text)>>
           /\ last_run' = [handler |-> "chat", outcome |-> "done", at |-> ""]
    /\ UNCHANGED <<current_report, uploaded_file_name, uploaded_file>>
    /\ UNCHANGED call_vars

\* A variant of the chat handler that drops the report on the fallback menu.
ChatInput_ClearsReport(user_input) ==
    /\ user_input # <<>>
    /\ Len(messages) + 2 <= MaxMessages
    /\ LET response == generate_response(user_input, current_report)
           user_msg == Message("user", [kind |-> "UserInput", input |-> user_input])
       IN  /\ messages' = messages \o <<user_msg, Message("assistant", response.text)>>
           /\ current_report' = IF response.category = "FallbackMenu"
                                THEN None ELSE current_report
           /\ last_run' = [handler |-> "chat", outcome |-> "done", at |-> ""]
    /\ UNCHANGED <<uploaded_file_name, uploaded_file>>
    /\ UNCHANGED call_vars

\* Lines 514-526. An exception in generate_response ends the script run
\* after the user message was appended.
ChatInput(user_input) ==
    /\ user_input # <<>>
    /\ Len(messages) + 2 <= MaxMessages
    /\ LET response == generate_response(user_input, current_report)
           user_msg == Message("user", [kind |-> "UserInput", input |-> user_input])
       IN  IF response.outcome = "raise"
           THEN /\ messages' = Append(messages, user_msg)
                /\ last_run' = [handler |-> "chat", outcome |-> "raised",
                                at |-> "generate_response"]
           ELSE /\ messages' = messages \o <<user_msg, Message("assistant", response.text)>>
                /\ last_run' = [handler |-> "chat", outcome |-> "done", at |-> ""]
    /\ UNCHANGED <<current_report, uploaded_file_name, uploaded_file>>
    /\ UNCHANGED call_vars

\* Lines 466-479: the sidebar buttons render from the report and store nothing.
QuickAction(button) ==
    /\ Truthy(current_report)
    /\ last_run' = [handler |-> button, outcome |-> "done", at |-> ""]
    /\ UNCHANGED <<messages, current_report, uploaded_file_name, uploaded_file>>
    /\ UNCHANGED call_vars

QuickButtons == {"show_parameters", "show_nodal_results", "show_summary", "download_report"}

SessionUtterances == {kw_upload, kw_nodal, kw_summary, <<"x">>}

Next ==
    \/ \E name \in Files : UploadFile(name)
    \/ RemoveFile
    \/ AnalyzeDocument
    \/ \E u \in SessionUtterances : ChatInput(u)
    \/ \E b \in QuickButtons : QuickAction(b)

Spec == Init /\ [][Next]_vars

\* ------------------------------------------------------------ direct calls
\* generate_response, generate_optimization_advice and identify_limitations
\* applied to inputs drawn from the bounded sets above.
CallInit ==
    /\ SessionInit
    /\ ret = NotCalled
    /\ \/ /\ arg_fn = "generate_response"
          /\ \/ /\ arg_input \in Utterances
                /\ arg_report \in {None, GoodReport, FailedNodalReport}
             \/ /\ arg_input \in BranchUtterances
                /\ arg_report \in FormatReports \cup {None}
       \/ /\ arg_fn = "generate_optimization_advice"
          /\ arg_input = <<>>
          /\ arg_report \in {Report(NominalParams, NodalSuccess(r), "") : r \in AdviceResults}
       \/ /\ arg_fn = "identify_limitations"
          /\ arg_input = <<>>
          /\ arg_report \in {Report(NominalParams, NodalSuccess(r), "") : r \in LimitationResults}

CallGenerateResponse ==
    /\ arg_fn = "generate_response"
    /\ ret = NotCalled
    /\ ret' = generate_response(arg_input, arg_report)
    /\ UNCHANGED <<session_vars, arg_fn, arg_input, arg_report>>

CallOptimizationAdvice ==
    /\ arg_fn = "generate_optimization_advice"
    /\ ret = NotCalled
    /\ ret' = generate_optimization_advice(arg_report.nodal_analysis_results.results)
    /\ UNCHANGED <<session_vars, arg_fn, arg_input, arg_report>>

CallIdentifyLimitations ==
    /\ arg_fn = "identify_limitations"
    /\ ret = NotCalled
    /\ ret' = identify_limitations(arg_report.nodal_analysis_results.results)
    /\ UNCHANGED <<session_vars, arg_fn, arg_input, arg_report>>

CallNext == CallGenerateResponse \/ CallOptimizationAdvice \/ CallIdentifyLimitations

CallSpec == CallInit /\ [][CallNext]_vars

\* ================================================================== claims
Called == ret # NotCalled

\* text contains word, compared letter by letter without regard to case.
OccursIgnoringCase(text, word) ==
    \E i \in 0..(Len(text) - Len(word)) :
        \A j \in 1..Len(word) : LowerChar(text[i + j]) = LowerChar(word[j])

LoadedOrder ==
    <<[category |-> "ShowParameters", words |-> {kw_parameter, kw_extract, kw_data}],
      [category |-> "ShowNodalDetails", words |-> {kw_nodal, kw_pressure, kw_flow}],
      [category |-> "ShowSummary", words |-> {kw_summary, kw_overview}],
      [category |-> "OptimizationAdvice", words |-> {kw_increase, kw_optimize, kw_improve}],
      [category |-> "LimitationAnalysis", words |-> {kw_limit, kw_bottleneck, kw_problem}]>>

NoReportOrder ==
    <<[category |-> "HelpGettingStarted", words |-> {kw_upload, kw_how, kw_start}],
      [category |-> "ExplainExtraction", words |-> {kw_extract, kw_parameter}],
      [category |-> "ExplainNodalAnalysis", words |-> {kw_nodal, kw_analysis, kw_calculate}]>>

\* The earliest-listed category one of whose words occurs in text, else fallback.
FirstMatch(order, text, fallback) ==
    LET hits == {k \in 1..Len(order) :
                    \E w \in order[k].words : OccursIgnoringCase(text, w)}
    IN  IF hits = {} THEN fallback
        ELSE order[CHOOSE k \in hits : \A h \in hits : k <= h].category

LoadedCategories ==
    {"ShowParameters", "ShowNodalDetails", "ShowSummary", "OptimizationAdvice",
     "LimitationAnalysis", "FallbackMenu"}

\* C1: with a report loaded, generate_response takes the branch of the
\* earliest-listed category (ShowParameters, ShowNodalDetails, ShowSummary,
\* OptimizationAdvice, LimitationAnalysis) one of whose keywords occurs in
\* the utterance as a case-insensitive substring, and FallbackMenu exactly
\* when none occurs.
C1_LoadedFirstMatch ==
    (arg_fn = "generate_response" /\ Called /\ Truthy(arg_report)) =>
        ret.category = FirstMatch(LoadedOrder, arg_input, "FallbackMenu")

\* An utterance with both "nodal" and "summary" (in some letter case) was
\* answered with ShowNodalDetails.
C1_Witness ==
    /\ arg_fn = "generate_response" /\ Called /\ Truthy(arg_report)
    /\ OccursIgnoringCase(arg_input, kw_nodal)
    /\ OccursIgnoringCase(arg_input, kw_summary)
    /\ ~Contains(arg_input, kw_summary)
    /\ ret.category = "ShowNodalDetails"

\* C2: with no report loaded, generate_response takes the branch of the
\* earliest-listed category (HelpGettingStarted, ExplainExtraction,
\* ExplainNodalAnalysis) one of whose keywords occurs, else NeedsUpload; an
\* utterance containing "upload" in any letter case yields
\* HelpGettingStarted, and no report-loaded category is produced.
C2_NoReportFirstMatch ==
    (arg_fn = "generate_response" /\ Called /\ ~Truthy(arg_report)) =>
        /\ ret.category = FirstMatch(NoReportOrder, arg_input, "NeedsUpload")
        /\ OccursIgnoringCase(arg_input, kw_upload) => ret.category = "HelpGettingStarted"
        /\ ret.category \notin LoadedCategories
        /\ ret.outcome = "return"

\* "UPLOAD" next to "parameter", no report: HelpGettingStarted.
C2_Witness ==
    /\ arg_fn = "generate_response" /\ Called /\ ~Truthy(arg_report)
    /\ OccursIgnoringCase(arg_input, kw_upload)
    /\ ~Contains(arg_input, kw_upload)
    /\ Contains(arg_input, kw_parameter)
    /\ ret.category = "HelpGettingStarted"

IsPrefix(s, t) == Len(s) <= Len(t) /\ SubSeq(t, 1, Len(s)) = s

C4_AppendOnly ==
    /\ messages[1] = Greeting
    /\ [][IsPrefix(messages, messages') /\ messages'[1] = Greeting]_vars

\* The log grew over a chat turn and then an analysis failed.
C4_Witness ==
    /\ Len(messages) >= 3
    /\ messages[2].content.kind = "UserInput"
    /\ last_run.handler = "analyze"
    /\ last_run.outcome = "raised"

\* C5: the current report changes only in an analysis run, which replaces
\* it with the report the run produced; every other handler, a chat turn
\* included, leaves it identical.
C5_ReportChangesOnlyByAnalysis ==
    [][/\ last_run'.handler # "analyze" => current_report' = current_report
       /\ current_report' # current_report =>
             \E run \in WellAnalysisAgent_run :
                run.outcome = "return" /\ current_report' = run.report]_vars

\* A chat turn ran to its end with a report loaded.
C5_Witness ==
    /\ last_run.handler = "chat"
    /\ Truthy(current_report)
    /\ Len(messages) >= 5
    /\ messages[Len(messages)].content.kind = "FallbackMenu"

\* generate_optimization_advice was applied to the results of arg_report,
\* directly or through the OptimizationAdvice branch of generate_response.
AdviceApplied ==
    /\ Called
    /\ \/ arg_fn = "generate_optimization_advice"
       \/ /\ arg_fn = "generate_response"
          /\ ret.category = "OptimizationAdvice"
          /\ arg_report.nodal_analysis_results.status = "success"
          /\ HasKey(arg_report.nodal_analysis_results, "results")

\* C6: for a report with nodal status success the advice names exactly one
\* band: u < 50 high potential, 50 <= u < 75 moderate potential, u >= 75
\* operating efficiently; the potential-gain line, max_flow_rate minus
\* flow_rate, appears if and only if u < 50.
C6_UtilizationBands ==
    AdviceApplied =>
        LET results == arg_report.nodal_analysis_results.results
            u == results.productivity.current_utilization_pct
            t == ret.text
        IN  /\ ret.outcome = "return"
            /\ (u < 50) <=> (t.band = "high potential")
            /\ (50 <= u /\ u < 75) <=> (t.band = "moderate potential")
            /\ (u >= 75) <=> (t.band = "operating efficiently")
            /\ t.gain_line <=> (u < 50)
            /\ t.gain_line =>
                  t.gain = results.productivity.max_flow_rate_m3_h
                            - results.operating_point.flow_rate_m3_h

\* Utilization exactly 50 was banded moderate, without a gain line.
C6_Witness ==
    /\ AdviceApplied
    /\ arg_report.nodal_analysis_results.results.productivity.current_utilization_pct = 50
    /\ ret.text.band = "moderate potential"
    /\ ~ret.text.gain_line

\* identify_limitations was applied to the results of arg_report.
LimitationsApplied ==
    /\ Called
    /\ \/ arg_fn = "identify_limitations"
       \/ /\ arg_fn = "generate_response"
          /\ ret.category = "LimitationAnalysis"
          /\ arg_report.nodal_analysis_results.status = "success"
          /\ HasKey(arg_report.nodal_analysis_results, "results")

\* C7: with total_drop = 0 identify_limitations returns with both
\* percentages 0 and without the high-friction block, whatever the two
\* drops are; otherwise each percentage is its drop / total_drop * 100 and
\* the high-friction block is emitted if and only if friction_pct > 10.
C7_LimitationPercentages ==
    LimitationsApplied =>
        LET pa == arg_report.nodal_analysis_results.results.pressure_analysis
            total == pa.total_pressure_drop_bar
            hydro == pa.hydrostatic_pressure_drop_bar
            friction == pa.friction_pressure_drop_bar
            t == ret.text
        IN  /\ ret.outcome = "return"
            /\ total = 0 =>
                  /\ t.hydrostatic_pct.num = 0
                  /\ t.friction_pct.num = 0
                  /\ ~t.high_friction
            /\ total # 0 =>
                  /\ t.hydrostatic_pct.num * total = hydro * 100 * t.hydrostatic_pct.den
                  /\ t.friction_pct.num * total = friction * 100 * t.friction_pct.den
                  /\ t.high_friction <=>
                        IF total > 0 THEN friction * 100 > 10 * total
                                     ELSE friction * 100 < 10 * total

\* total_drop = 0 with a non-zero friction drop: returned, percentages 0.
C7_Witness ==
    /\ LimitationsApplied
    /\ arg_report.nodal_analysis_results.results.pressure_analysis.total_pressure_drop_bar = 0
    /\ arg_report.nodal_analysis_results.results.pressure_analysis.friction_pressure_drop_bar > 0
    /\ ret.outcome = "return"
    /\ ret.text.friction_pct.num = 0

\* generate_response ran on a loaded report whose nodal status is failure.
FailureAnswered ==
    /\ arg_fn = "generate_response"
    /\ Called
    /\ Truthy(arg_report)
    /\ arg_report.nodal_analysis_results.status # "success"

\* C8: with nodal status failure the three nodal-dependent branches return
\* instead of raising and read no results: ShowNodalDetails the warning
\* with the report's message verbatim, OptimizationAdvice and
\* LimitationAnalysis their fixed messages.
C8_FailureMessages ==
    FailureAnswered =>
        /\ ret.outcome = "return"
        /\ ret.category = "ShowNodalDetails" =>
              ret.text = [kind |-> "NodalIncomplete",
                          message |-> arg_report.nodal_analysis_results.message]
        /\ ret.category = "OptimizationAdvice" =>
              ret.text = [kind |-> "NeedNodalForOptimization"]
        /\ ret.category = "LimitationAnalysis" =>
              ret.text = [kind |-> "NeedNodalForLimitations"]

\* A failed report answered an optimization question with the fixed message.
C8_Witness ==
    /\ FailureAnswered
    /\ ret.category = "OptimizationAdvice"
    /\ ret.text.kind = "NeedNodalForOptimization"
    /\ arg_report.nodal_analysis_results.message # ""

ExpectedLabel(key) ==
    CASE key = kw_well_name -> <<"W","e","l","l"," ","N","a","m","e">>
      [] key = kw_duration -> <<"D","u","r","a","t","i","o","n">>
      [] OTHER -> <<"T","u","b","i","n","g"," ","S","i","z","e">>

\* C9: ShowParameters emits exactly one bullet per entry of
\* extracted_parameters whose value is truthy, in insertion order, and none
\* for an entry whose value is "", 0 or None; all values falsy gives the
\* heading alone.
C9_ParameterBullets ==
    (arg_fn = "generate_response" /\ Called /\ ret.category = "ShowParameters") =>
        LET params == arg_report.extracted_parameters
            falsy == {StrValue(""), NumValue(0), NoneValue}
            shown == {i \in 1..Len(params) : params[i].value \notin falsy}
            rank(i) == Cardinality({j \in shown : j <= i})
            bullets == ret.text.bullets
        IN  /\ ret.outcome = "return"
            /\ Len(bullets) = Cardinality(shown)
            /\ \A i \in shown :
                  /\ bullets[rank(i)].value = params[i].value
                  /\ bullets[rank(i)].label = ExpectedLabel(params[i].key)

\* {"well_name": "A-12", "duration": ""}: one bullet, for Well Name.
C9_Witness ==
    /\ arg_fn = "generate_response" /\ Called /\ ret.category = "ShowParameters"
    /\ arg_report.extracted_parameters = NominalParams
    /\ Len(ret.text.bullets) = 1
    /\ ret.text.bullets[1].value = StrValue("A-12")

====
